---- MODULE Spec2Model ----
(* Model of conformance/utils/suite/suite.go: the conformance test suite    *)
(* constructor New, Setup, the suite's Run loop over sub-tests and the      *)
(* per-test ConformanceTest.Run with its feature, exemption and channel     *)
(* gates.                                                                   *)
EXTENDS Integers, Sequences, FiniteSets, TLC

VARIABLES opts, tests, loopVarPerIteration, phase, suite, setupLog, idx, loopVars, sub

vars == <<opts, tests, loopVarPerIteration, phase, suite, setupLog, idx, loopVars, sub>>

(* ------------------------------------------------------------------ *)
(* Bounds and program constants                                        *)
(* ------------------------------------------------------------------ *)

MaxTests == 2

ExperimentalChannel == 1

StandardChannel == 2

AcceptTimeout == 180

ReadyTimeout == 300

ExemptReferencePolicy == "ReferencePolicy"

SupportReferencePolicy == "ReferencePolicy"

OtherFeature == "HTTPRouteQueryParams"

DefaultBaseManifests == "base/manifests.yaml"

SetupNamespaces ==
  <<"gateway-conformance-infra", "gateway-conformance-app-backend",
    "gateway-conformance-web-backend">>

Range(s) == {s[i] : i \in DOMAIN s}

(* ------------------------------------------------------------------ *)
(* Inputs: Options values and lists of conformance tests               *)
(* ------------------------------------------------------------------ *)

OptionsSet ==
  [ GatewayClassName     : {"gwc"},
    BaseManifests        : {"", "custom/base.yaml"},
    CleanupBaseResources : BOOLEAN,
    ExemptFeatures       : {<<>>, <<ExemptReferencePolicy>>},
    SupportedFeatures    : {<<>>, <<SupportReferencePolicy>>,
                            <<OtherFeature, SupportReferencePolicy>>},
    MinChannel           : {0, ExperimentalChannel, StandardChannel} ]

ConformanceTest(name, feats, exempts, manifests, par, ch) ==
  [ ShortName |-> name, Features |-> feats, Exemptions |-> exempts,
    Manifests |-> manifests, Parallel |-> par, Test |-> name,
    MinChannel |-> ch ]

TestCatalog ==
  { ConformanceTest("Plain", <<>>, <<>>, <<>>, FALSE, 0),
    ConformanceTest("RefPolicy", <<SupportReferencePolicy>>, <<>>,
                    <<"refpolicy.yaml">>, TRUE, StandardChannel),
    ConformanceTest("TwoFeatures", <<SupportReferencePolicy, OtherFeature>>,
                    <<ExemptReferencePolicy>>,
                    <<"two-a.yaml", "two-b.yaml">>, FALSE, ExperimentalChannel),
    ConformanceTest("Exempt", <<>>, <<ExemptReferencePolicy>>,
                    <<"exempt.yaml">>, TRUE, ExperimentalChannel),
    ConformanceTest("Standard", <<>>, <<>>,
                    <<"std-a.yaml", "std-b.yaml">>, TRUE, StandardChannel),
    ConformanceTest("Experimental", <<>>, <<>>,
                    <<"exp.yaml">>, FALSE, ExperimentalChannel) }

UniqueNames(list) ==
  \A i, j \in DOMAIN list : i # j => list[i].ShortName # list[j].ShortName

TestLists ==
  { l \in UNION { [1..n -> TestCatalog] : n \in 1..MaxTests } : UniqueNames(l) }

(* ------------------------------------------------------------------ *)
(* New                                                                  *)
(* ------------------------------------------------------------------ *)

NoSuite ==
  [ GatewayClassName |-> "", ControllerName |-> "", Cleanup |-> FALSE,
    BaseManifests |-> "", ExemptFeatures |-> <<>>, SupportedFeatures |-> <<>>,
    MinChannel |-> 0 ]

New(s) ==
  LET MinChannel == IF s.MinChannel = 0 THEN StandardChannel ELSE s.MinChannel
      built == [ GatewayClassName  |-> s.GatewayClassName,
                 ControllerName    |-> "",
                 Cleanup           |-> s.CleanupBaseResources,
                 BaseManifests     |-> s.BaseManifests,
                 ExemptFeatures    |-> s.ExemptFeatures,
                 SupportedFeatures |-> s.SupportedFeatures,
                 MinChannel        |-> s.MinChannel ]
  IN  IF built.BaseManifests = ""
        THEN [built EXCEPT !.BaseManifests = DefaultBaseManifests]
        ELSE built

(* ------------------------------------------------------------------ *)
(* External collaborators of package kubernetes                        *)
(* ------------------------------------------------------------------ *)

(* Each call is recorded as an event; ok = FALSE is the fatal failure   *)
(* of the calling test (the call does not return).                      *)
GWCMustBeAccepted(gwcName, timeout, ok) ==
  [ op |-> "GWCMustBeAccepted", arg |-> gwcName, bound |-> timeout,
    cleanup |-> FALSE, namespaces |-> <<>>, ok |-> ok ]

MustApplyWithCleanup(location, gwcName, cleanup, ok) ==
  [ op |-> "MustApplyWithCleanup", arg |-> location, bound |-> 0,
    cleanup |-> cleanup, namespaces |-> <<>>, ok |-> ok ]

NamespacesMustBeReady(namespaces, timeout, ok) ==
  [ op |-> "NamespacesMustBeReady", arg |-> "", bound |-> timeout,
    cleanup |-> FALSE, namespaces |-> namespaces, ok |-> ok ]

(* ------------------------------------------------------------------ *)
(* Setup                                                                *)
(* ------------------------------------------------------------------ *)

(* Variant: the base manifests are applied before the acceptance check. *)
SetupCallsApplyFirst(s, accepted, applied, ready) ==
  LET e1 == GWCMustBeAccepted(s.GatewayClassName, AcceptTimeout, accepted)
      e2 == MustApplyWithCleanup(s.BaseManifests, s.GatewayClassName,
                                 s.Cleanup, applied)
      e3 == NamespacesMustBeReady(SetupNamespaces, ReadyTimeout, ready)
  IN  IF ~e2.ok THEN <<e2>>
      ELSE IF ~e1.ok THEN <<e2, e1>>
      ELSE <<e2, e1, e3>>

SetupCalls(s, accepted, applied, ready) ==
  LET e1 == GWCMustBeAccepted(s.GatewayClassName, AcceptTimeout, accepted)
      e2 == MustApplyWithCleanup(s.BaseManifests, s.GatewayClassName,
                                 s.Cleanup, applied)
      e3 == NamespacesMustBeReady(SetupNamespaces, ReadyTimeout, ready)
  IN  IF ~e1.ok THEN <<e1>>
      ELSE IF ~e2.ok THEN <<e1, e2>>
      ELSE <<e1, e2, e3>>

(* ------------------------------------------------------------------ *)
(* ConformanceTest.Run                                                  *)
(* ------------------------------------------------------------------ *)

Contains(list, x) == \E i \in DOMAIN list : list[i] = x

(* Variant: the loop returns after looking at its first element only.   *)
FirstMissingFirstOnly(wanted, have, k) ==
  IF k > Len(wanted) THEN 0
  ELSE IF ~Contains(have, wanted[k]) THEN k
  ELSE 0

RECURSIVE FirstMissing(_, _, _)
FirstMissing(wanted, have, k) ==
  IF k > Len(wanted) THEN 0
  ELSE IF ~Contains(have, wanted[k]) THEN k
  ELSE FirstMissing(wanted, have, k + 1)

(* Variant: the channel comparison is <= instead of <.                  *)
ChannelSkipInclusive(test, s) == test.MinChannel <= s.MinChannel

ChannelSkip(test, s) == test.MinChannel < s.MinChannel

(* Variant: the manifest loop stops one element short.                  *)
RECURSIVE ApplyManifestsOneShort(_, _, _, _)
ApplyManifestsOneShort(manifests, s, k, failAt) ==
  IF k >= Len(manifests) THEN <<>>
  ELSE LET ev == MustApplyWithCleanup(manifests[k], s.GatewayClassName,
                                      TRUE, k # failAt)
       IN  IF ~ev.ok THEN <<ev>>
           ELSE <<ev>> \o ApplyManifestsOneShort(manifests, s, k + 1, failAt)

(* Variant: the per-test manifests are applied with the suite's Cleanup *)
(* flag instead of true.                                                *)
RECURSIVE ApplyManifestsSuiteCleanup(_, _, _, _)
ApplyManifestsSuiteCleanup(manifests, s, k, failAt) ==
  IF k > Len(manifests) THEN <<>>
  ELSE LET ev == MustApplyWithCleanup(manifests[k], s.GatewayClassName,
                                      s.Cleanup, k # failAt)
       IN  IF ~ev.ok THEN <<ev>>
           ELSE <<ev>> \o ApplyManifestsSuiteCleanup(manifests, s, k + 1, failAt)

RECURSIVE ApplyManifests(_, _, _, _)
ApplyManifests(manifests, s, k, failAt) ==
  IF k > Len(manifests) THEN <<>>
  ELSE LET ev == MustApplyWithCleanup(manifests[k], s.GatewayClassName,
                                      TRUE, k # failAt)
       IN  IF ~ev.ok THEN <<ev>>
           ELSE <<ev>> \o ApplyManifests(manifests, s, k + 1, failAt)

(* Variant: the Parallel flag is ignored and t.Parallel() never called. *)
CallsParallelNever(test) == FALSE

CallsParallel(test) == test.Parallel

Skipped(test, gate, what) ==
  [ st |-> "skipped", subject |-> test.ShortName, skipGate |-> gate,
    skipArg |-> what, applied |-> <<>>, body |-> "" ]

(* Variant: the gates are checked after the manifest loop, so a skip    *)
(* comes with the manifests already applied.                            *)
TestRunGatesAfterApply(test, s, failAt) ==
  LET mf == FirstMissing(test.Features, s.SupportedFeatures, 1)
      me == FirstMissing(test.Exemptions, s.ExemptFeatures, 1)
      applied == ApplyManifests(test.Manifests, s, 1, failAt)
  IN  IF \E k \in DOMAIN applied : ~applied[k].ok
        THEN [ st |-> "failed", subject |-> test.ShortName,
               skipGate |-> "none", skipArg |-> "",
               applied |-> applied, body |-> "" ]
      ELSE IF mf # 0
        THEN [Skipped(test, "features", test.Features[mf])
                EXCEPT !.applied = applied]
      ELSE IF me # 0
        THEN [Skipped(test, "exemptions", test.Exemptions[me])
                EXCEPT !.applied = applied]
      ELSE IF ChannelSkip(test, s)
        THEN [Skipped(test, "channel", "") EXCEPT !.applied = applied]
      ELSE [ st |-> "executed", subject |-> test.ShortName,
             skipGate |-> "none", skipArg |-> "",
             applied |-> applied, body |-> test.Test ]

TestRun(test, s, failAt) ==
  LET mf == FirstMissing(test.Features, s.SupportedFeatures, 1)
      me == FirstMissing(test.Exemptions, s.ExemptFeatures, 1)
  IN  IF mf # 0 THEN Skipped(test, "features", test.Features[mf])
      ELSE IF me # 0 THEN Skipped(test, "exemptions", test.Exemptions[me])
      ELSE IF ChannelSkip(test, s) THEN Skipped(test, "channel", "")
      ELSE LET applied == ApplyManifests(test.Manifests, s, 1, failAt)
           IN  IF \E k \in DOMAIN applied : ~applied[k].ok
                 THEN [ st |-> "failed", subject |-> test.ShortName,
                        skipGate |-> "none", skipArg |-> "",
                        applied |-> applied, body |-> "" ]
                 ELSE [ st |-> "executed", subject |-> test.ShortName,
                        skipGate |-> "none", skipArg |-> "",
                        applied |-> applied, body |-> test.Test ]

(* ------------------------------------------------------------------ *)
(* State machine                                                        *)
(* ------------------------------------------------------------------ *)

NotStarted ==
  [ st |-> "notstarted", name |-> "", parallel |-> FALSE, ref |-> 0,
    subject |-> "", skipGate |-> "none", skipArg |-> "", applied |-> <<>>,
    body |-> "" ]

Finished(r) == r.st \in {"skipped", "failed", "executed"}

Init ==
  /\ opts \in OptionsSet
  /\ tests \in TestLists
  /\ loopVarPerIteration \in BOOLEAN
  /\ phase = "start"
  /\ suite = NoSuite
  /\ setupLog = <<>>
  /\ idx = 1
  /\ loopVars = <<>>
  /\ sub = [i \in DOMAIN tests |-> NotStarted]

Construct ==
  /\ phase = "start"
  /\ suite' = New(opts)
  /\ phase' = "constructed"
  /\ UNCHANGED <<opts, tests, loopVarPerIteration, setupLog, idx, loopVars, sub>>

Setup ==
  /\ phase = "constructed"
  /\ \E accepted, applied, ready \in BOOLEAN :
       LET calls == SetupCalls(suite, accepted, applied, ready)
       IN  /\ setupLog' = calls
           /\ suite' = IF calls[1].ok
                         THEN [suite EXCEPT !.ControllerName = "controller"]
                         ELSE suite
           /\ phase' = IF \A k \in DOMAIN calls : calls[k].ok
                         THEN "ready" ELSE "aborted"
  /\ UNCHANGED <<opts, tests, loopVarPerIteration, idx, loopVars, sub>>

(* One iteration of the loop in ConformanceTestSuite.Run: assign the    *)
(* loop variable, open the sub-test under test.ShortName and run the    *)
(* closure until the sub-test finishes or pauses in t.Parallel().       *)
RunIteration ==
  /\ phase \in {"ready", "running"}
  /\ idx <= Len(tests)
  /\ phase' = "running"
  /\ LET newVars == IF loopVarPerIteration
                      THEN Append(loopVars, tests[idx])
                      ELSE <<tests[idx]>>
         ref     == Len(newVars)
         test    == newVars[ref]
     IN  /\ loopVars' = newVars
         /\ IF CallsParallel(test)
              THEN sub' = [sub EXCEPT ![idx] =
                     [NotStarted EXCEPT !.st = "paused",
                                        !.name = test.ShortName,
                                        !.parallel = TRUE, !.ref = ref]]
              ELSE \E failAt \in 0..Len(test.Manifests) :
                     LET r == TestRun(test, suite, failAt)
                     IN  sub' = [sub EXCEPT ![idx] =
                           [ st |-> r.st, name |-> test.ShortName,
                             parallel |-> FALSE, ref |-> ref,
                             subject |-> r.subject, skipGate |-> r.skipGate,
                             skipArg |-> r.skipArg, applied |-> r.applied,
                             body |-> r.body ]]
  /\ idx' = idx + 1
  /\ UNCHANGED <<opts, tests, loopVarPerIteration, suite, setupLog>>

(* The loop is exhausted, Run returns and the parent test function      *)
(* returns: the paused parallel sub-tests are released.                 *)
RunReturn ==
  /\ phase \in {"ready", "running"}
  /\ idx > Len(tests)
  /\ phase' = "returned"
  /\ UNCHANGED <<opts, tests, loopVarPerIteration, suite, setupLog, idx, loopVars, sub>>

ParallelResume(i) ==
  /\ phase = "returned"
  /\ sub[i].st = "paused"
  /\ sub' = [sub EXCEPT ![i].st = "running"]
  /\ UNCHANGED <<opts, tests, loopVarPerIteration, phase, suite, setupLog, idx, loopVars>>

ParallelFinish(i) ==
  /\ sub[i].st = "running"
  /\ LET test == loopVars[sub[i].ref]
     IN  \E failAt \in 0..Len(test.Manifests) :
           LET r == TestRun(test, suite, failAt)
           IN  sub' = [sub EXCEPT ![i] =
                 [ st |-> r.st, name |-> sub[i].name,
                   parallel |-> TRUE, ref |-> sub[i].ref,
                   subject |-> r.subject, skipGate |-> r.skipGate,
                   skipArg |-> r.skipArg, applied |-> r.applied,
                   body |-> r.body ]]
  /\ UNCHANGED <<opts, tests, loopVarPerIteration, phase, suite, setupLog, idx, loopVars>>

Next ==
  \/ Construct
  \/ Setup
  \/ RunIteration
  \/ RunReturn
  \/ \E i \in DOMAIN tests : ParallelResume(i)
  \/ \E i \in DOMAIN tests : ParallelFinish(i)

Spec == Init /\ [][Next]_vars

(* ------------------------------------------------------------------ *)
(* Properties                                                           *)
(* ------------------------------------------------------------------ *)

(* The test whose fields a finished sub-test read through its receiver. *)
TestNamed(n) == CHOOSE t \in Range(tests) : t.ShortName = n

FeaturesOK(T, S) == Range(T.Features) \subseteq Range(S.SupportedFeatures)

ExemptionsOK(T, S) == Range(T.Exemptions) \subseteq Range(S.ExemptFeatures)

GatesHold(T, S) ==
  /\ FeaturesOK(T, S)
  /\ ExemptionsOK(T, S)
  /\ T.MinChannel >= S.MinChannel

AllApplied(r, T) ==
  /\ Len(r.applied) = Len(T.Manifests)
  /\ \A k \in DOMAIN r.applied : r.applied[k].ok

(* C1 (as stated): a finished per-test Run has invoked the body if and  *)
(* only if the three gate conditions hold, and ends as a skip in every  *)
(* other case.                                                          *)
C1_RunsIffGates ==
  \A i \in DOMAIN sub : Finished(sub[i]) =>
    LET T == TestNamed(sub[i].subject)
    IN  /\ (sub[i].body = T.Test /\ sub[i].st = "executed") <=> GatesHold(T, suite)
        /\ ~GatesHold(T, suite) => sub[i].st = "skipped"

(* C1 (amended): a finished per-test Run has invoked the body of its    *)
(* test if and only if every required feature is supported, every       *)
(* exemption feature is exempted, the test's MinChannel is at least the *)
(* suite's, and every manifest of the test was applied successfully;    *)
(* whenever a gate condition fails the test ends as a skip, never as a  *)
(* failure.                                                             *)
C1_RunsIffGatesAndManifests ==
  \A i \in DOMAIN sub : Finished(sub[i]) =>
    LET T == TestNamed(sub[i].subject)
    IN  /\ (sub[i].body = T.Test /\ sub[i].st = "executed")
             <=> (GatesHold(T, suite) /\ AllApplied(sub[i], T))
        /\ ~GatesHold(T, suite) => sub[i].st = "skipped"
        /\ sub[i].st = "failed" => GatesHold(T, suite)

C1_Witness ==
  \E i, j \in DOMAIN sub :
    /\ sub[i].st = "executed"
    /\ TestNamed(sub[i].subject).Features # <<>>
    /\ TestNamed(sub[i].subject).Exemptions # <<>>
    /\ sub[j].st = "skipped"

(* C2 (as stated): the channel gate skips exactly when the test's       *)
(* MinChannel ordinal exceeds the suite's, and a test executes only if  *)
(* the suite's MinChannel is at or above the test's.                    *)
C2_SkipWhenTestExceeds ==
  \A i \in DOMAIN sub : Finished(sub[i]) =>
    LET T == TestNamed(sub[i].subject)
    IN  /\ (sub[i].skipGate = "channel")
             <=> (FeaturesOK(T, suite) /\ ExemptionsOK(T, suite)
                  /\ T.MinChannel > suite.MinChannel)
        /\ sub[i].st = "executed" => suite.MinChannel >= T.MinChannel

(* C2 (amended): the channel gate skips exactly when the feature and    *)
(* exemption gates pass and the test's MinChannel ordinal is below the  *)
(* suite's; a test executes only if the suite's MinChannel ordinal is   *)
(* at or below the test's.                                              *)
C2_SkipWhenTestBelow ==
  \A i \in DOMAIN sub : Finished(sub[i]) =>
    LET T == TestNamed(sub[i].subject)
    IN  /\ (sub[i].skipGate = "channel")
             <=> (FeaturesOK(T, suite) /\ ExemptionsOK(T, suite)
                  /\ T.MinChannel < suite.MinChannel)
        /\ sub[i].st = "executed" => suite.MinChannel <= T.MinChannel

C2_Witness ==
  \E i, j \in DOMAIN sub :
    /\ sub[i].skipGate = "channel"
    /\ TestNamed(sub[i].subject).MinChannel = 1
    /\ suite.MinChannel = 2
    /\ sub[j].st = "executed"
    /\ TestNamed(sub[j].subject).MinChannel = 2

(* C3: New applies defaults: an empty BaseManifests becomes             *)
(* "base/manifests.yaml", an unset MinChannel (0) becomes               *)
(* StandardChannel, and given values are carried unchanged.             *)
C3_NewDefaults ==
  phase # "start" =>
    /\ suite.BaseManifests =
         (IF opts.BaseManifests = "" THEN "base/manifests.yaml"
                                     ELSE opts.BaseManifests)
    /\ suite.MinChannel =
         (IF opts.MinChannel = 0 THEN 2 ELSE opts.MinChannel)

(* C4: a test for which any gate fails ends as a skip with no manifest  *)
(* applied and no body invoked; the gates are tried in the order        *)
(* features, exemptions, channel and the first failing one is the one   *)
(* that skips, at the first offending feature in list order.            *)
C4_SkipNoSideEffects ==
  \A i \in DOMAIN sub : Finished(sub[i]) =>
    LET T == TestNamed(sub[i].subject)
        fOK == FeaturesOK(T, suite)
        eOK == ExemptionsOK(T, suite)
        cOK == T.MinChannel >= suite.MinChannel
        missing(list, have) ==
          {k \in DOMAIN list : list[k] \notin Range(have)}
        firstOf(S) == CHOOSE k \in S : \A m \in S : k <= m
    IN  /\ ~(fOK /\ eOK /\ cOK) =>
              /\ sub[i].st = "skipped"
              /\ sub[i].applied = <<>>
              /\ sub[i].body = ""
        /\ ~fOK =>
              /\ sub[i].skipGate = "features"
              /\ sub[i].skipArg =
                   T.Features[firstOf(missing(T.Features, suite.SupportedFeatures))]
        /\ (fOK /\ ~eOK) =>
              /\ sub[i].skipGate = "exemptions"
              /\ sub[i].skipArg =
                   T.Exemptions[firstOf(missing(T.Exemptions, suite.ExemptFeatures))]
        /\ (fOK /\ eOK /\ ~cOK) => sub[i].skipGate = "channel"
        /\ sub[i].st = "skipped" => ~(fOK /\ eOK /\ cOK)

C4_Witness ==
  \E i \in DOMAIN sub :
    LET T == TestNamed(sub[i].subject)
    IN  /\ sub[i].st = "skipped"
        /\ sub[i].skipGate = "features"
        /\ T.Manifests # <<>>
        /\ ~ExemptionsOK(T, suite)
        /\ FeaturesOK([T EXCEPT !.Features = <<T.Features[1]>>], suite)

(* C5: Setup first checks acceptance of the GatewayClass (bound 180),   *)
(* then applies the base manifests, then waits for the three fixed      *)
(* namespaces (bound 300); a failed acceptance check ends the run with  *)
(* nothing applied and no readiness wait, and a failed application ends *)
(* it with no readiness wait.                                           *)
C5_SetupOrder ==
  phase \notin {"start", "constructed"} =>
    /\ Len(setupLog) \in 1..3
    /\ setupLog[1].op = "GWCMustBeAccepted"
    /\ setupLog[1].bound = 180
    /\ ~setupLog[1].ok => (Len(setupLog) = 1 /\ phase = "aborted")
    /\ Len(setupLog) >= 2 =>
         /\ setupLog[1].ok
         /\ setupLog[2].op = "MustApplyWithCleanup"
         /\ setupLog[2].arg = suite.BaseManifests
         /\ ~setupLog[2].ok => (Len(setupLog) = 2 /\ phase = "aborted")
    /\ Len(setupLog) = 3 =>
         /\ setupLog[2].ok
         /\ setupLog[3].op = "NamespacesMustBeReady"
         /\ setupLog[3].bound = 300
         /\ setupLog[3].namespaces =
              <<"gateway-conformance-infra", "gateway-conformance-app-backend",
                "gateway-conformance-web-backend">>
         /\ ~setupLog[3].ok => phase = "aborted"
    /\ setupLog[1].ok => Len(setupLog) >= 2
    /\ Len(setupLog) = 2 => ~setupLog[2].ok
    /\ phase # "aborted" => (Len(setupLog) = 3 /\ setupLog[3].ok)
    /\ \A k \in DOMAIN sub : phase = "aborted" => sub[k].st = "notstarted"

C5_Witness ==
  /\ phase = "aborted"
  /\ Len(setupLog) = 1
  /\ ~setupLog[1].ok

AllDone ==
  /\ phase = "returned"
  /\ \A i \in DOMAIN sub : Finished(sub[i])

NoApplyFailure ==
  \A i \in DOMAIN sub : \A k \in DOMAIN sub[i].applied : sub[i].applied[k].ok

(* C6: once Run and all its sub-tests are over, every test of the list  *)
(* was started and ended either skipped or with its body executed, and  *)
(* the number of executed bodies is the number of tests whose gate      *)
(* conditions hold (stated here for the runs in which every manifest    *)
(* application succeeded).                                              *)
C6_EachTestOnce ==
  (AllDone /\ NoApplyFailure) =>
    /\ \A i \in DOMAIN sub : sub[i].st \in {"skipped", "executed"}
    /\ Cardinality({i \in DOMAIN sub : sub[i].st = "executed"})
         = Cardinality({i \in DOMAIN tests : GatesHold(tests[i], suite)})
    /\ \A i \in DOMAIN sub :
         (sub[i].st = "executed") <=> GatesHold(tests[i], suite)

(* C7: while Run's loop is in progress every started test that is not   *)
(* marked Parallel has already run to completion and every started      *)
(* Parallel test is paused, so that it holds none of its siblings back: *)
(* the next loop iteration can start.                                   *)
C7_ParallelScheduling ==
  \A i \in DOMAIN sub :
    /\ (~tests[i].Parallel /\ sub[i].st # "notstarted") => Finished(sub[i])
    /\ \A j \in DOMAIN sub :
         (i < j /\ ~tests[i].Parallel /\ sub[j].st # "notstarted")
            => Finished(sub[i])
    /\ (tests[i].Parallel /\ sub[i].st # "notstarted" /\ phase = "running")
         => sub[i].st = "paused"
    /\ (tests[i].Parallel /\ sub[i].st = "paused" /\ idx = i + 1
          /\ i < Len(tests)) => ENABLED RunIteration
    /\ sub[i].st # "notstarted" => sub[i].parallel = tests[i].Parallel

C7_Witness ==
  \E i, j \in DOMAIN sub :
    /\ i # j
    /\ tests[i].Parallel /\ tests[j].Parallel
    /\ sub[i].st = "running" /\ sub[j].st = "running"

(* C8: the sub-test opened under a test's ShortName evaluates that      *)
(* test's gates, applies that test's manifests and invokes that test's  *)
(* body, also when the test is marked Parallel.                         *)
C8_SubTestIdentity ==
  \A i \in DOMAIN sub : Finished(sub[i]) =>
    /\ sub[i].name = tests[i].ShortName
    /\ sub[i].subject = tests[i].ShortName
    /\ sub[i].body # "" => sub[i].body = tests[i].Test
    /\ \A k \in DOMAIN sub[i].applied :
         /\ k <= Len(tests[i].Manifests)
         /\ sub[i].applied[k].arg = tests[i].Manifests[k]

(* C9: a test that passes the gates has its manifests applied one by    *)
(* one in list order; the body is invoked only when every manifest was  *)
(* applied successfully; a failed application fails the test, is not    *)
(* retried, and neither the remaining manifests nor the body follow.    *)
C9_ManifestsThenBody ==
  \A i \in DOMAIN sub : (Finished(sub[i]) /\ sub[i].st # "skipped") =>
    LET T == TestNamed(sub[i].subject)
        a == sub[i].applied
    IN  /\ Len(a) <= Len(T.Manifests)
        /\ \A k \in DOMAIN a :
             /\ a[k].op = "MustApplyWithCleanup"
             /\ a[k].arg = T.Manifests[k]
             /\ ~a[k].ok => k = Len(a)
        /\ sub[i].body # "" => (sub[i].body = T.Test /\ AllApplied(sub[i], T))
        /\ AllApplied(sub[i], T) => sub[i].body = T.Test
        /\ (\E k \in DOMAIN a : ~a[k].ok)
             => (sub[i].st = "failed" /\ sub[i].body = "")

C9_Witness ==
  \E i, j \in DOMAIN sub :
    /\ sub[i].st = "failed"
    /\ Len(sub[i].applied) = 1
    /\ Len(TestNamed(sub[i].subject).Manifests) = 2
    /\ sub[j].st = "executed"
    /\ Len(sub[j].applied) = 2

(* C10: every manifest applied by the per-test Run is registered for    *)
(* cleanup whatever the suite's Cleanup flag is, and the base manifests *)
(* applied by Setup are registered for cleanup exactly when the suite   *)
(* was constructed with CleanupBaseResources = TRUE.                    *)
C10_CleanupRegistration ==
  /\ \A i \in DOMAIN sub : \A k \in DOMAIN sub[i].applied :
       sub[i].applied[k].cleanup = TRUE
  /\ \A k \in DOMAIN setupLog :
       setupLog[k].op = "MustApplyWithCleanup"
         => (setupLog[k].cleanup <=> opts.CleanupBaseResources)

C10_Witness ==
  /\ ~opts.CleanupBaseResources
  /\ Len(setupLog) >= 2
  /\ ~setupLog[2].cleanup
  /\ \E i \in DOMAIN sub : sub[i].applied # <<>>
====
